---- MODULE Spec2Model ----
(***************************************************************************)
(* Model of rig_stats.py: a Prometheus exporter with three kinds of        *)
(* collectors (NvidiaCollector, FlyPoolCollector, DSTMCollector /          *)
(* BMinerCollector), the main() thread that registers them and polls the   *)
(* pool once per interval, and the HTTP server thread that serves scrapes. *)
(*                                                                         *)
(* Python values are modelled as records of one shape per family so that   *)
(* they can be compared: numbers are integers (0.0 is 0), None is its own  *)
(* kind, a raised exception is a result with ok = FALSE.                   *)
(***************************************************************************)
EXTENDS Integers, Sequences, FiniteSets, TLC

\* ------------------------------------------------------------------ bounds
\* Largest number of GPUs the driver enumerates.
MaxGpus == 2
\* Largest value of int(time.time()) (the clock starts at 0).
MaxClock == 1
\* Largest number of driver queries failing at once in SpecDevice.
MaxFail == 1
\* Saturation of the count of consecutive failed poll ticks.
MaxStreak == 2

\* ------------------------------------------------------- metric families
\* One sample of a GaugeMetricFamily: its label values and its value.  A
\* family without the gpu_id (or type) label carries "" there.
Sample(gpu_id, type, value) == [gpu_id |-> gpu_id, type |-> type, value |-> value]

Family(name, samples) == [name |-> name, samples |-> samples]

\* What running a collect() generator to its end gives: the families it
\* yielded, or an exception (nothing is yielded before the first yield).
Yielded(fams) == [ok |-> TRUE, fams |-> fams]

Raised == [ok |-> FALSE, fams |-> << >>]

\* The result of evaluating one expression: a number, or an exception.
Value(v) == [ok |-> TRUE, v |-> v]

Raises == [ok |-> FALSE, v |-> 0]

\* nvmlDeviceGetUUID of the device with index i (0-based, as in the code).
UUIDs == <<"GPU-0", "GPU-1", "GPU-2", "GPU-3">>

GpuUUID(i) == UUIDs[i + 1]

\* ------------------------------------------------------------ JSON values
JNum(n) == [k |-> "num", v |-> n]

JNull == [k |-> "null", v |-> 0]

\* The object with no keys.
EmptyObj == [f \in {} |-> JNull]

\* ------------------------------------------------------ NvidiaCollector
\* What an nvmlDeviceGet* call hands back: a plain number, or a structure
\* read by attribute (or a tuple read by index, keyed "0" and "1" here).
Num(n) == [k |-> "num", v |-> n, f |-> EmptyObj]

Struct(fn) == [k |-> "struct", v |-> 0, f |-> fn]

\* The 22 add_metric calls of NvidiaCollector.collect, in source order: the
\* family, the 'type' label, the getter (with its argument) and how the
\* returned value is read ("" for the value itself).
DevicePoints == <<
  [fam |-> "nvidia_gpu_utilization", type |-> "gpu", q |-> "UtilizationRates", acc |-> "gpu"],
  [fam |-> "nvidia_gpu_utilization", type |-> "memory", q |-> "UtilizationRates", acc |-> "memory"],
  [fam |-> "nvidia_clock_speed", type |-> "core", q |-> "ClockInfo(CLOCK_COUNT)", acc |-> ""],
  [fam |-> "nvidia_clock_speed", type |-> "memory", q |-> "ClockInfo(CLOCK_MEM)", acc |-> ""],
  [fam |-> "nvidia_clock_speed", type |-> "max_core", q |-> "MaxClockInfo(CLOCK_COUNT)", acc |-> ""],
  [fam |-> "nvidia_clock_speed", type |-> "max_memory", q |-> "MaxClockInfo(CLOCK_MEM)", acc |-> ""],
  [fam |-> "nvidia_power_usage", type |-> "usage", q |-> "PowerUsage", acc |-> ""],
  [fam |-> "nvidia_power_usage", type |-> "min_limit", q |-> "PowerManagementLimitConstraints", acc |-> "0"],
  [fam |-> "nvidia_power_usage", type |-> "max_limit", q |-> "PowerManagementLimitConstraints", acc |-> "1"],
  [fam |-> "nvidia_power_usage", type |-> "limit", q |-> "PowerManagementLimit", acc |-> ""],
  [fam |-> "nvidia_power_usage", type |-> "default_limit", q |-> "PowerManagementDefaultLimit", acc |-> ""],
  [fam |-> "nvidia_power_usage", type |-> "enforced_limit", q |-> "EnforcedPowerLimit", acc |-> ""],
  [fam |-> "nvidia_memory_usage", type |-> "used", q |-> "MemoryInfo", acc |-> "used"],
  [fam |-> "nvidia_memory_usage", type |-> "free", q |-> "MemoryInfo", acc |-> "free"],
  [fam |-> "nvidia_memory_usage", type |-> "total", q |-> "MemoryInfo", acc |-> "total"],
  [fam |-> "nvidia_bar1_memory_usage", type |-> "used", q |-> "BAR1MemoryInfo", acc |-> "bar1Used"],
  [fam |-> "nvidia_bar1_memory_usage", type |-> "free", q |-> "BAR1MemoryInfo", acc |-> "bar1Free"],
  [fam |-> "nvidia_bar1_memory_usage", type |-> "total", q |-> "BAR1MemoryInfo", acc |-> "bar1Total"],
  [fam |-> "nvidia_temperature", type |-> "current", q |-> "Temperature(GPU)", acc |-> ""],
  [fam |-> "nvidia_temperature", type |-> "slowdown_threshold", q |-> "TemperatureThreshold(SLOWDOWN)", acc |-> ""],
  [fam |-> "nvidia_temperature", type |-> "shutdown_threshold", q |-> "TemperatureThreshold(SHUTDOWN)", acc |-> ""],
  [fam |-> "nvidia_fan_speed", type |-> "", q |-> "FanSpeed", acc |-> ""] >>

\* The seven families, in the order collect() yields them.
DeviceFamilies == <<"nvidia_gpu_utilization", "nvidia_clock_speed", "nvidia_power_usage",
                    "nvidia_memory_usage", "nvidia_bar1_memory_usage", "nvidia_temperature",
                    "nvidia_fan_speed">>

PointIdx == 1..Len(DevicePoints)

Queries == {DevicePoints[p].q : p \in PointIdx}

\* The reading the driver holds for point p of device i: distinct numbers,
\* all nonzero, so that a defaulted 0.0 is recognisable.
Reading(i, p) == 100 * (i + 1) + p

\* What the driver returns for getter q on device i when it does not fail.
DriverValue(i, q) ==
  LET ps == {p \in PointIdx : DevicePoints[p].q = q}
      accs == {DevicePoints[p].acc : p \in ps}
      at(a) == CHOOSE p \in ps : DevicePoints[p].acc = a
  IN IF accs = {""} THEN Num(Reading(i, at("")))
     ELSE Struct([a \in accs |-> Reading(i, at(a))])

\* NvidiaCollector.call: the getter's value, or the float 0.0 when the
\* driver raises NVMLError.  fail is the set of <<device, getter>> pairs
\* for which the driver currently raises.
NvmlCall(fail, i, q) == IF <<i, q>> \in fail THEN Num(0) ELSE DriverValue(i, q)

\* The value expression of one add_metric call: the call's result, read
\* through its attribute or index.  Reading an attribute or an index of a
\* float raises (AttributeError, TypeError).
PointValue(fail, i, p) ==
  LET r == NvmlCall(fail, i, DevicePoints[p].q)
      a == DevicePoints[p].acc
  IN IF a = "" THEN Value(r.v)
     ELSE IF r.k = "struct" /\ a \in DOMAIN r.f THEN Value(r.f[a])
     ELSE Raises

\* The samples of family fam for devices i .. count-1, device by device.
RECURSIVE DeviceSamples(_, _, _, _)
DeviceSamples(fam, fail, i, count) ==
  IF i >= count THEN << >>
  ELSE LET ps == SelectSeq([p \in PointIdx |-> p], LAMBDA p : DevicePoints[p].fam = fam)
           mine == [j \in 1..Len(ps) |->
                      Sample(GpuUUID(i), DevicePoints[ps[j]].type, PointValue(fail, i, ps[j]).v)]
       IN mine \o DeviceSamples(fam, fail, i + 1, count)

\* NvidiaCollector.collect for count enumerated devices: the loop runs to
\* its end before the first yield, so one raising expression ends the
\* generator with nothing yielded.
NvidiaCollect(count, fail) ==
  IF \A i \in 0..(count - 1), p \in PointIdx : PointValue(fail, i, p).ok
  THEN Yielded([n \in 1..Len(DeviceFamilies) |->
                  Family(DeviceFamilies[n], DeviceSamples(DeviceFamilies[n], fail, 0, count))])
  ELSE Raised

\* ------------------------------------------------------ FlyPoolCollector
\* The ten add_metric calls of FlyPoolCollector.collect, in source order:
\* the family, the 'type' label and the key read from the snapshot.
PoolPoints == <<
  [fam |-> "pool_hashrate", type |-> "current", key |-> "currentHashrate"],
  [fam |-> "pool_hashrate", type |-> "average", key |-> "averageHashrate"],
  [fam |-> "pool_shares", type |-> "valid", key |-> "validShares"],
  [fam |-> "pool_shares", type |-> "invalid", key |-> "invalidShares"],
  [fam |-> "pool_shares", type |-> "stale", key |-> "staleShares"],
  [fam |-> "pool_earnings", type |-> "unconfirmed", key |-> "unconfirmed"],
  [fam |-> "pool_earnings", type |-> "unpaid", key |-> "unpaid"],
  [fam |-> "pool_earnings", type |-> "coins_per_min", key |-> "coinsPerMin"],
  [fam |-> "pool_earnings", type |-> "btc_per_min", key |-> "btcPerMin"],
  [fam |-> "pool_earnings", type |-> "usd_per_min", key |-> "usdPerMin"] >>

PoolFamilyNames == <<"pool_hashrate", "pool_shares", "pool_earnings">>

PoolIdx == 1..Len(PoolPoints)

PoolKeys == {PoolPoints[p].key : p \in PoolIdx}

\* The 'data' member of a parsed body: missing, a JSON object (o maps its
\* keys to numbers or null), or a JSON value that is no object ("NO DATA").
NoMember == [k |-> "missing", o |-> EmptyObj]

Obj(o) == [k |-> "obj", o |-> o]

Scalar == [k |-> "scalar", o |-> EmptyObj]

\* A value of self.data: a dict with its 'data' member, or parsed JSON that
\* is no dict (a list, a string, null).
PyDict(d) == [t |-> "dict", d |-> d]

PyOther == [t |-> "other", d |-> NoMember]

\* FlyPoolCollector.__init__: self.data = {}.
EmptySnapshot == PyDict(NoMember)

\* Pool statistics: two full payloads that differ in every field, one with
\* a null field and one with a field left out.
StatsA == [f \in PoolKeys |-> JNum(10 + (CHOOSE p \in PoolIdx : PoolPoints[p].key = f))]

StatsB == [f \in PoolKeys |-> JNum(30 + (CHOOSE p \in PoolIdx : PoolPoints[p].key = f))]

StatsNull == [StatsA EXCEPT !["validShares"] = JNull]

StatsPartial == [f \in PoolKeys \ {"unconfirmed"} |-> StatsA[f]]

\* What the GET of query_pool can come back with: a network error, a body
\* that is not JSON, or a body that parses to val.
NetError == [kind |-> "neterr", val |-> EmptySnapshot]

NotJson == [kind |-> "notjson", val |-> EmptySnapshot]

Json(val) == [kind |-> "json", val |-> val]

\* The bodies the pool adapter is exercised with.
PoolBodies == {NetError, NotJson,
               Json(PyDict(Obj(StatsA))), Json(PyDict(Obj(StatsB))),
               Json(PyDict(Obj(StatsNull))), Json(PyDict(Obj(StatsPartial))),
               Json(PyDict(NoMember)), Json(PyDict(Scalar)), Json(PyOther)}

\* The bodies the whole exporter is exercised with.
SysBodies == {NetError, Json(PyDict(Obj(StatsA)))}

\* query_pool: self.data after the call.  request() raises on a network
\* error and json.loads on a body that is not JSON; whatever json.loads
\* returns is assigned.
QueryPool(selfData, body) == IF body.kind = "json" THEN body.val ELSE selfData

\* The variant of query_pool without its try/except.
QueryPoolRaisesUnguarded(body) == body.kind # "json"

\* query_pool: whether an exception leaves the call ('except Exception:
\* pass' absorbs every one).
QueryPoolRaises(body) == FALSE

\* collect, line 92: data = self.data.get('data', {}).  A self.data that
\* is no dict has no get (AttributeError).
DataGet(selfData) ==
  IF selfData.t # "dict" THEN [ok |-> FALSE, val |-> NoMember]
  ELSE IF selfData.d.k = "missing" THEN [ok |-> TRUE, val |-> Obj(EmptyObj)]
  ELSE [ok |-> TRUE, val |-> selfData.d]

\* data[key] if data[key] is not None else 0.0, on a local data.
Lookup(local, key) ==
  IF local.k # "obj" \/ key \notin DOMAIN local.o THEN Raises
  ELSE IF local.o[key].k = "null" THEN Value(0)
  ELSE Value(local.o[key].v)

\* The re-reading variant: every line fetches self.data afresh.
PoolFieldReread(selfData, local, key) ==
  IF DataGet(selfData).ok THEN Lookup(DataGet(selfData).val, key) ELSE Raises

\* collect, lines 94-103: the value expression of one add_metric call.  It
\* reads the local 'data' bound at line 92, never self.data again.
PoolField(selfData, local, key) == Lookup(local, key)

\* collect, lines 88-90 and 105-107: the three families with the ten
\* emitted values, in the order they are yielded.
PoolFamilies(emitted) ==
  [n \in 1..Len(PoolFamilyNames) |->
     LET ps == SelectSeq([p \in PoolIdx |-> p], LAMBDA p : PoolPoints[p].fam = PoolFamilyNames[n])
     IN Family(PoolFamilyNames[n],
               [j \in 1..Len(ps) |-> Sample("", PoolPoints[ps[j]].type, emitted[ps[j]])])]

\* ---------------------------------------------------------- miner adapters
\* What the miner's status endpoint currently answers: a full status, a
\* refused connection, bytes that are not JSON, or a JSON object without the
\* expected members.
MinerRsps == {"ok", "connfail", "garbage", "nofields"}

\* The result of a query_miner call: an exception, or a dict that holds the
\* status members (full) or none of them.
QueryRaised == [ok |-> FALSE, full |-> FALSE]

QueryDict(full) == [ok |-> TRUE, full |-> full]

\* DSTMCollector.query_miner: connect and json.loads raise freely.
DSTMQuery(rsp) ==
  IF rsp \in {"connfail", "garbage"} THEN QueryRaised ELSE QueryDict(rsp = "ok")

\* The per-device numbers of a full dstm status, for device i: sol_ps,
\* avg_sol_ps, sol_pw, avg_sol_pw, accepted_shares, rejected_shares, latency.
DstmStat(i, n) == 10 * (i + 1) + n

\* DSTMCollector.collect over the devices 0 .. count-1 the miner reports.
DSTMCollect(rsp, count) ==
  LET q == DSTMQuery(rsp)
      per(types, base) ==
        [j \in 1..(count * Len(types)) |->
           LET i == (j - 1) \div Len(types)
               t == ((j - 1) % Len(types)) + 1
           IN Sample(GpuUUID(i), types[t], DstmStat(i, base + t))]
  IN IF ~q.ok \/ ~q.full THEN Raised
     ELSE Yielded(<<
       Family("miner_uptime", <<Sample("", "miner", 100), Sample("", "connection", 5)>>),
       Family("miner_hashrate", per(<<"current", "average">>, 0)),
       Family("miner_efficiency", per(<<"current", "average">>, 2)),
       Family("miner_pool_shares", per(<<"accepted", "rejected">>, 4)),
       Family("miner_latency", per(<<"">>, 6)) >>)

\* BMinerCollector.query_miner: a refused connection (NewConnectionError)
\* gives the empty dict; anything else raised passes through.
BMinerQuery(rsp) ==
  IF rsp = "garbage" THEN QueryRaised ELSE QueryDict(rsp = "ok")

\* A full bminer status: start_time, the stratum share counts and, per
\* device index, the solver's solution_rate and the device's power.
BMinerStatus(count) ==
  [start_time |-> 0, accepted |-> 7, rejected |-> 1,
   miners |-> [i \in 0..(count - 1) |-> [rate |-> 50 * (i + 1), power |-> 100]]]

\* round(rate / power, 2), in hundredths; ZeroDivisionError when power is 0.
\* (Halves are rounded up here; the statuses above divide without a half.)
Round2(rate, power) ==
  IF power = 0 THEN Raises ELSE Value((200 * rate + power) \div (2 * power))

\* The variant in which a missing status is answered with defaults.
BMinerCollectDefaults(rsp, count, now) ==
  IF ~BMinerQuery(rsp).ok THEN Raised
  ELSE LET st == BMinerStatus(IF BMinerQuery(rsp).full THEN count ELSE 0)
           n == IF BMinerQuery(rsp).full THEN count ELSE 0
           full == BMinerQuery(rsp).full
       IN Yielded(<<
            Family("miner_uptime", <<Sample("", "miner", IF full THEN now - st.start_time ELSE 0),
                                     Sample("", "connection", 0)>>),
            Family("miner_hashrate",
                   [j \in 1..n |-> Sample(GpuUUID(j - 1), "current", st.miners[j - 1].rate)]),
            Family("miner_efficiency",
                   [j \in 1..n |-> Sample(GpuUUID(j - 1), "current",
                                          Round2(st.miners[j - 1].rate, st.miners[j - 1].power).v)]),
            Family("miner_pool_shares", <<Sample("", "accepted", IF full THEN st.accepted ELSE 0),
                                          Sample("", "rejected", IF full THEN st.rejected ELSE 0)>>) >>)

\* The variant in which the connection uptime is taken from the clock too.
BMinerCollectConnClock(rsp, count, now) ==
  IF ~BMinerQuery(rsp).ok \/ ~BMinerQuery(rsp).full THEN Raised
  ELSE LET st == BMinerStatus(count)
       IN Yielded(<<
            Family("miner_uptime", <<Sample("", "miner", now - st.start_time),
                                     Sample("", "connection", now - st.start_time)>>),
            Family("miner_hashrate",
                   [j \in 1..count |-> Sample(GpuUUID(j - 1), "current", st.miners[j - 1].rate)]),
            Family("miner_efficiency",
                   [j \in 1..count |-> Sample(GpuUUID(j - 1), "current",
                                              Round2(st.miners[j - 1].rate, st.miners[j - 1].power).v)]),
            Family("miner_pool_shares", <<Sample("", "accepted", st.accepted),
                                          Sample("", "rejected", st.rejected)>>) >>)

\* BMinerCollector.collect at clock reading now (int(time.time())).  The
\* empty dict has no 'start_time': line 172 raises KeyError.  Device keys
\* are resolved to UUIDs through the driver, in the status's key order.
BMinerCollect(rsp, count, now) ==
  LET q == BMinerQuery(rsp)
      st == BMinerStatus(count)
      eff(i) == Round2(st.miners[i].rate, st.miners[i].power)
  IN IF ~q.ok \/ ~q.full THEN Raised
     ELSE IF \E i \in 0..(count - 1) : ~eff(i).ok THEN Raised
     ELSE Yielded(<<
            Family("miner_uptime", <<Sample("", "miner", now - st.start_time),
                                     Sample("", "connection", 0)>>),
            Family("miner_hashrate",
                   [j \in 1..count |-> Sample(GpuUUID(j - 1), "current", st.miners[j - 1].rate)]),
            Family("miner_efficiency",
                   [j \in 1..count |-> Sample(GpuUUID(j - 1), "current", eff(j - 1).v)]),
            Family("miner_pool_shares", <<Sample("", "accepted", st.accepted),
                                          Sample("", "rejected", st.rejected)>>) >>)

\* ------------------------------------------------------------ parse_args
\* An option that was not given (argparse leaves None).
None == "<None>"

\* The command lines: every option is absent or holds a value argparse
\* accepts for it (--pool one of its choices, --miner one of its choices).
ArgSets ==
  [pool : {None, "flypool"}, pool_api_host : {None, "host"}, pool_api_miner : {None, "account"},
   miner : {None, "dstm", "bminer"}, miner_api_host : {None, "host"}, miner_api_port : {None, "4068"}]

\* len(tuple(filter(None.__ne__, group))): how many of the options are given.
Supplied(group) == Cardinality({n \in 1..Len(group) : group[n] # None})

\* The variant of the check that lets a group of two through.
GroupOkLoose(n) == n \in {0, 2, 3}

\* The test 'not in (0, 3)' of lines 243 and 245, negated.
GroupOk(n) == n \in {0, 3}

PoolGroup(a) == <<a.pool, a.pool_api_host, a.pool_api_miner>>

MinerGroup(a) == <<a.miner, a.miner_api_host, a.miner_api_port>>

\* parse_args returns (TRUE) or ends the process through parser.error.
ArgsAccepted(a) == GroupOk(Supplied(PoolGroup(a))) /\ GroupOk(Supplied(MinerGroup(a)))

\* -------------------------------------------------------------------- main
\* The variant that starts the server before the first poll.
MainProgramServerFirst ==
  <<"parse_args", "register_nvidia", "construct_pool", "register_pool",
    "register_miner", "start_http_server", "query_pool", "sleep">>

\* The statements of main() in program order, up to the sleep that opens
\* the polling loop.
MainProgram ==
  <<"parse_args", "register_nvidia", "construct_pool", "query_pool", "register_pool",
    "register_miner", "start_http_server", "sleep">>

\* The statement after statement s.
NextStmt(s) == MainProgram[(CHOOSE n \in 1..Len(MainProgram) : MainProgram[n] = s) + 1]

\* ------------------------------------------------------------------- state
VARIABLES
  args,           \* the parsed command line
  mainPc,         \* the statement main() is at, or "query" (the poll's request
                  \* is in flight), "rejected", "crashed", "exited"
  registry,       \* the collectors registered with REGISTRY, in order
  pool_collector, \* main's pool_collector is not None
  serving,        \* start_http_server has returned: scrapes are accepted
  data,           \* pool_collector.data
  gpuCount,       \* nvmlDeviceGetCount()
  nvmlFail,       \* the <<device, getter>> pairs for which the driver raises
  minerRsp,       \* what the miner's status endpoint answers
  now,            \* int(time.time())
  scrapePc,       \* the scrape in progress: "idle", "collect", "pool_emit", "respond"
  scrapeIdx,      \* the index in registry of the collector to run next
  scrapeOk,       \* no collector of this scrape has raised
  acc,            \* the families yielded so far in this scrape
  local,          \* the local 'data' of FlyPoolCollector.collect
  emitted,        \* the values of the add_metric calls done by that collect
  ends,           \* how each collector of this scrape ended, and what the miner answered
  response,       \* the last response sent, while nothing it was built from has changed
  tainted,        \* a poll returned while this scrape was in progress
  lastRefresh,    \* how the last query_pool call ended
  eagerOutcome,   \* how the query_pool call of line 274 ended
  everAssigned    \* query_pool has assigned self.data at least once

vars == <<args, mainPc, registry, pool_collector, serving, data, gpuCount, nvmlFail,
          minerRsp, now, scrapePc, scrapeIdx, scrapeOk, acc, local, emitted, ends,
          response, tainted, lastRefresh, eagerOutcome, everAssigned>>

mainVars == <<args, mainPc, registry, pool_collector, serving>>

poolVars == <<data, lastRefresh, eagerOutcome, everAssigned>>

envVars == <<gpuCount, nvmlFail, minerRsp, now>>

scrapeVars == <<scrapePc, scrapeIdx, scrapeOk, acc, local, emitted, ends>>

\* No local 'data' is bound (no pool collect is running).
Unbound == [k |-> "unbound", o |-> EmptyObj]

NoEnds == [nvidia |-> "none", pool |-> "none", miner |-> "none", rsp |-> "none",
           initial |-> FALSE, snap |-> EmptySnapshot]

\* No query_pool call has been made.
NoRefresh == [outcome |-> "none", streak |-> 0]

\* No response is held for comparison.
NoResponse == [held |-> FALSE, ok |-> FALSE, fams |-> << >>]

\* The response r, held for comparison with the next one.
Held(r) == [held |-> TRUE, ok |-> r.ok, fams |-> r.fams]

\* The sets of at most k elements of U.
RECURSIVE UpTo(_, _)
UpTo(U, k) ==
  IF k = 0 THEN {{}}
  ELSE LET S == UpTo(U, k - 1) IN S \cup {F \cup {x} : F \in S, x \in U}

\* The driver failures the device adapter is exercised with: at most
\* MaxFail getters raising, on any of the count devices.
DeviceFailSets(count) == UpTo((0..(count - 1)) \X Queries, MaxFail)

\* The driver failures the whole exporter is exercised with: none, or one
\* getter of device 0.
SysFailSets(count) == {F \in {{}, {<<0, "FanSpeed">>}} : \A x \in F : x[1] < count}

\* The state after the process has started, for command lines drawn from
\* argSet and device counts from counts, the driver failing nowhere or
\* (anyFail) in any way DeviceFailSets gives.
InitWith(argSet, counts, anyFail) ==
  /\ args \in argSet
  /\ mainPc = "parse_args"
  /\ registry = << >>
  /\ pool_collector = FALSE
  /\ serving = FALSE
  /\ data = EmptySnapshot
  /\ gpuCount \in counts
  /\ nvmlFail \in (IF anyFail THEN DeviceFailSets(gpuCount) ELSE {{}})
  /\ minerRsp = "ok"
  /\ now = 0
  /\ scrapePc = "idle"
  /\ scrapeIdx = 1
  /\ scrapeOk = TRUE
  /\ acc = << >>
  /\ local = Unbound
  /\ emitted = << >>
  /\ ends = NoEnds
  /\ response = NoResponse
  /\ tainted = FALSE
  /\ lastRefresh = NoRefresh
  /\ eagerOutcome = "none"
  /\ everAssigned = FALSE

\* The whole exporter starts on a rig without GPUs or with MaxGpus of them.
Init == InitWith(ArgSets, {0, MaxGpus}, FALSE)

\* A pool-statistics payload: a JSON object whose 'data' member is an
\* object holding every one of the ten keys (a value may be null).
WellFormed(body) ==
  /\ body.kind = "json"
  /\ body.val.t = "dict"
  /\ body.val.d.k = "obj"
  /\ PoolKeys \subseteq DOMAIN body.val.d.o

\* The failed poll ticks in a row up to the call recorded in last.
Streak(last) == IF last.outcome \in {"fail_kept", "fail_replaced"} THEN last.streak ELSE 0

\* How a query_pool call that received body ended, given self.data before:
\* the payload was well formed ("ok"), or it was not and self.data kept or
\* lost its value.  streak counts the failed ticks of the loop in a row: up
\* to and with a failed call, right before a call that is ok (the eager
\* call of line 274 is no tick).
Outcome(before, body, last, tick) ==
  [outcome |-> IF WellFormed(body) THEN "ok"
               ELSE IF QueryPool(before, body) = before THEN "fail_kept" ELSE "fail_replaced",
   streak |-> IF ~tick THEN 0
              ELSE IF WellFormed(body) \/ Streak(last) = MaxStreak THEN Streak(last)
              ELSE Streak(last) + 1]

\* The effect of one query_pool call on the adapter, and on the response
\* held for comparison: a poll is a change of what responses are built from.
DoQueryPool(body, tick) ==
  /\ data' = QueryPool(data, body)
  /\ lastRefresh' = Outcome(data, body, lastRefresh, tick)
  /\ everAssigned' = (everAssigned \/ body.kind = "json")
  /\ response' = NoResponse
  /\ tainted' = (scrapePc # "idle")

\* main, line 265: parse_args.
ParseArgs ==
  /\ mainPc = "parse_args"
  /\ mainPc' = IF ArgsAccepted(args) THEN NextStmt(mainPc) ELSE "rejected"
  /\ UNCHANGED <<args, registry, pool_collector, serving>>
  /\ UNCHANGED <<poolVars, envVars, scrapeVars, response, tainted>>

\* main, lines 268-271: nvmlInit and REGISTRY.register(NvidiaCollector()).
RegisterNvidia ==
  /\ mainPc = "register_nvidia"
  /\ registry' = Append(registry, "nvidia")
  /\ mainPc' = NextStmt(mainPc)
  /\ UNCHANGED <<args, pool_collector, serving>>
  /\ UNCHANGED <<poolVars, envVars, scrapeVars, response, tainted>>

\* main, lines 272-273: the pool collector is constructed when --pool is given.
ConstructPool ==
  /\ mainPc = "construct_pool"
  /\ pool_collector' = (args.pool # None)
  /\ mainPc' = NextStmt(mainPc)
  /\ UNCHANGED <<args, registry, serving>>
  /\ UNCHANGED <<poolVars, envVars, scrapeVars, response, tainted>>

\* main, line 274: the eager query_pool (skipped without a pool collector).
EagerQuery(bodies) ==
  /\ mainPc = "query_pool"
  /\ IF pool_collector
     THEN \E body \in bodies :
            /\ DoQueryPool(body, FALSE)
            /\ eagerOutcome' = IF QueryPool(data, body) = data /\ body.kind # "json"
                               THEN "kept" ELSE "assigned"
            /\ mainPc' = IF QueryPoolRaises(body) THEN "crashed" ELSE NextStmt(mainPc)
     ELSE /\ mainPc' = NextStmt(mainPc)
          /\ UNCHANGED <<poolVars, response, tainted>>
  /\ UNCHANGED <<args, registry, pool_collector, serving>>
  /\ UNCHANGED <<envVars, scrapeVars>>

\* main, line 275: REGISTRY.register(pool_collector).
RegisterPool ==
  /\ mainPc = "register_pool"
  /\ registry' = IF pool_collector THEN Append(registry, args.pool) ELSE registry
  /\ mainPc' = NextStmt(mainPc)
  /\ UNCHANGED <<args, pool_collector, serving>>
  /\ UNCHANGED <<poolVars, envVars, scrapeVars, response, tainted>>

\* main, lines 276-277: the miner collector is registered when --miner is given.
RegisterMiner ==
  /\ mainPc = "register_miner"
  /\ registry' = IF args.miner # None THEN Append(registry, args.miner) ELSE registry
  /\ mainPc' = NextStmt(mainPc)
  /\ UNCHANGED <<args, pool_collector, serving>>
  /\ UNCHANGED <<poolVars, envVars, scrapeVars, response, tainted>>

\* main, line 281: start_http_server returns with the server thread
\* running, or raises (the port is taken) and the process ends.
StartServer ==
  /\ mainPc = "start_http_server"
  /\ \E bound \in BOOLEAN :
       /\ serving' = bound
       /\ mainPc' = IF bound THEN NextStmt(mainPc) ELSE "crashed"
  /\ UNCHANGED <<args, registry, pool_collector>>
  /\ UNCHANGED <<poolVars, envVars, scrapeVars, response, tainted>>

\* main, lines 283-285: time.sleep returns; with a pool collector the
\* request of query_pool goes out, without one the loop sleeps again.
Wake ==
  /\ mainPc = "sleep"
  /\ mainPc' = IF pool_collector THEN "query" ELSE "sleep"
  /\ UNCHANGED <<args, registry, pool_collector, serving>>
  /\ UNCHANGED <<poolVars, envVars, scrapeVars, response, tainted>>

\* main, line 285: the request of the loop's query_pool comes back.
QueryPoolReturn(bodies) ==
  /\ mainPc = "query"
  /\ \E body \in bodies :
       /\ DoQueryPool(body, TRUE)
       /\ mainPc' = IF QueryPoolRaises(body) THEN "crashed" ELSE "sleep"
  /\ UNCHANGED <<args, registry, pool_collector, serving, eagerOutcome>>
  /\ UNCHANGED <<envVars, scrapeVars>>

\* main, lines 286-288: KeyboardInterrupt inside the try ends the process.
\* The server thread is a daemon and ends with it: the scrape in progress
\* and its locals are gone.
Shutdown ==
  /\ mainPc \in {"start_http_server", "sleep", "query"}
  /\ mainPc' = "exited"
  /\ serving' = FALSE
  /\ scrapePc' = "idle"
  /\ scrapeIdx' = 1
  /\ scrapeOk' = TRUE
  /\ acc' = << >>
  /\ local' = Unbound
  /\ emitted' = << >>
  /\ ends' = NoEnds
  /\ response' = NoResponse
  /\ tainted' = FALSE
  /\ UNCHANGED <<args, registry, pool_collector>>
  /\ UNCHANGED <<poolVars, envVars>>

\* ------------------------------------------------------ the scrape thread
\* The process is running (the server thread dies with it).
Alive == mainPc \notin {"rejected", "crashed", "exited"}

\* The collector the scrape in progress runs next.
Current == IF scrapePc = "collect" /\ scrapeIdx <= Len(registry) THEN registry[scrapeIdx] ELSE "-"

\* CollectorRegistry.collect and the exposition: the families of all
\* collectors in registration order, or no body at all once one has raised.
ResponseOf(ok, fams) == IF ok THEN Yielded(fams) ELSE Raised

\* A collector's generator ended with result r: the scrape goes on to the
\* next collector, or to the response when r is an exception or the last.
CollectorEnds(r) ==
  IF r.ok
  THEN /\ acc' = acc \o r.fams
       /\ scrapeIdx' = scrapeIdx + 1
       /\ scrapePc' = IF scrapeIdx + 1 > Len(registry) THEN "respond" ELSE "collect"
       /\ scrapeOk' = scrapeOk
  ELSE /\ acc' = << >>
       /\ scrapeIdx' = scrapeIdx
       /\ scrapePc' = "respond"
       /\ scrapeOk' = FALSE

EndTag(r) == IF r.ok THEN "ok" ELSE "raised"

\* A GET arrives at the scrape endpoint.
ScrapeStart ==
  /\ Alive /\ serving /\ scrapePc = "idle"
  /\ scrapePc' = IF Len(registry) = 0 THEN "respond" ELSE "collect"
  /\ scrapeIdx' = 1
  /\ UNCHANGED <<scrapeOk, acc, local, emitted, ends>>
  /\ UNCHANGED <<mainVars, poolVars, envVars, response, tainted>>

\* NvidiaCollector.collect runs to its end.
CollectNvidia ==
  /\ Alive /\ Current = "nvidia"
  /\ LET r == NvidiaCollect(gpuCount, nvmlFail)
     IN /\ CollectorEnds(r)
        /\ ends' = [ends EXCEPT !.nvidia = EndTag(r)]
  /\ UNCHANGED <<local, emitted>>
  /\ UNCHANGED <<mainVars, poolVars, envVars, response, tainted>>

\* FlyPoolCollector.collect, line 92: the snapshot is read once.
PoolRead ==
  /\ Alive /\ Current = "flypool"
  /\ LET g == DataGet(data)
     IN IF g.ok
        THEN /\ local' = g.val
             /\ scrapePc' = "pool_emit"
             /\ ends' = [ends EXCEPT !.initial = ~everAssigned, !.snap = data]
             /\ UNCHANGED <<scrapeIdx, scrapeOk, acc>>
        ELSE /\ CollectorEnds(Raised)
             /\ ends' = [ends EXCEPT !.pool = "raised", !.initial = ~everAssigned, !.snap = data]
             /\ UNCHANGED local
  /\ UNCHANGED emitted
  /\ UNCHANGED <<mainVars, poolVars, envVars, response, tainted>>

\* FlyPoolCollector.collect, lines 94-103: the next add_metric call; after
\* the tenth the three families are yielded.
PoolEmit ==
  /\ Alive /\ scrapePc = "pool_emit"
  /\ LET n == Len(emitted) + 1
         r == PoolField(data, local, PoolPoints[n].key)
     IN IF ~r.ok
        THEN /\ CollectorEnds(Raised)
             /\ ends' = [ends EXCEPT !.pool = "raised"]
             /\ UNCHANGED emitted
        ELSE IF n < Len(PoolPoints)
        THEN /\ emitted' = Append(emitted, r.v)
             /\ UNCHANGED <<scrapePc, scrapeIdx, scrapeOk, acc, ends>>
        ELSE /\ emitted' = Append(emitted, r.v)
             /\ CollectorEnds(Yielded(PoolFamilies(Append(emitted, r.v))))
             /\ ends' = [ends EXCEPT !.pool = "ok"]
  /\ UNCHANGED local
  /\ UNCHANGED <<mainVars, poolVars, envVars, response, tainted>>

\* DSTMCollector.collect or BMinerCollector.collect runs to its end.
CollectMiner ==
  /\ Alive /\ Current \in {"dstm", "bminer"}
  /\ LET r == IF Current = "dstm" THEN DSTMCollect(minerRsp, gpuCount)
              ELSE BMinerCollect(minerRsp, gpuCount, now)
     IN /\ CollectorEnds(r)
        /\ ends' = [ends EXCEPT !.miner = EndTag(r), !.rsp = minerRsp]
  /\ UNCHANGED <<local, emitted>>
  /\ UNCHANGED <<mainVars, poolVars, envVars, response, tainted>>

\* The response is sent (or the request fails) and the scrape's locals go.
Respond ==
  /\ Alive /\ scrapePc = "respond"
  /\ response' = IF tainted THEN NoResponse ELSE Held(ResponseOf(scrapeOk, acc))
  /\ tainted' = FALSE
  /\ scrapePc' = "idle"
  /\ scrapeIdx' = 1
  /\ scrapeOk' = TRUE
  /\ acc' = << >>
  /\ local' = Unbound
  /\ emitted' = << >>
  /\ ends' = NoEnds
  /\ UNCHANGED <<mainVars, poolVars, envVars>>

\* ---------------------------------------------------------- the environment
\* Each reading is sampled by one step of a scrape, so a change during a
\* scrape shows exactly like one just before or after it: changes are taken
\* between scrapes.
\* The driver starts or stops raising for some getters.
DriverChange ==
  /\ Alive /\ serving /\ scrapePc = "idle"
  /\ \E F \in SysFailSets(gpuCount) \ {nvmlFail} : nvmlFail' = F
  /\ response' = NoResponse
  /\ UNCHANGED <<gpuCount, minerRsp, now, tainted>>
  /\ UNCHANGED <<mainVars, poolVars, scrapeVars>>

\* The miner's status endpoint answers differently.
MinerChange ==
  /\ Alive /\ serving /\ scrapePc = "idle" /\ args.miner # None
  /\ \E r \in MinerRsps \ {minerRsp} : minerRsp' = r
  /\ response' = NoResponse
  /\ UNCHANGED <<gpuCount, nvmlFail, now, tainted>>
  /\ UNCHANGED <<mainVars, poolVars, scrapeVars>>

\* The wall clock reaches the next second.
Tick ==
  /\ Alive /\ serving /\ scrapePc = "idle" /\ now < MaxClock
  /\ now' = now + 1
  /\ UNCHANGED <<gpuCount, nvmlFail, minerRsp, response, tainted>>
  /\ UNCHANGED <<mainVars, poolVars, scrapeVars>>

\* ------------------------------------------------------- specifications
Startup(bodies) ==
  \/ ParseArgs
  \/ RegisterNvidia
  \/ ConstructPool
  \/ EagerQuery(bodies)
  \/ RegisterPool
  \/ RegisterMiner
  \/ StartServer
  \/ Wake
  \/ Shutdown

\* The whole exporter, for every command line.
Next ==
  \/ Startup(SysBodies)
  \/ QueryPoolReturn(SysBodies)
  \/ ScrapeStart
  \/ CollectNvidia
  \/ PoolRead
  \/ PoolEmit
  \/ CollectMiner
  \/ Respond
  \/ DriverChange
  \/ MinerChange
  \/ Tick

Spec == Init /\ [][Next]_vars

\* The exporter with a pool and no miner, over every pool body.
PoolArgs == {a \in ArgSets : Supplied(PoolGroup(a)) = 3 /\ Supplied(MinerGroup(a)) = 0}

InitPool == InitWith(PoolArgs, {0}, FALSE)

NextPool ==
  \/ Startup(PoolBodies)
  \/ QueryPoolReturn(PoolBodies)
  \/ ScrapeStart
  \/ CollectNvidia
  \/ PoolRead
  \/ PoolEmit
  \/ Respond

SpecPool == InitPool /\ [][NextPool]_vars

\* The poll loop returns from its sleep and its request comes back.
SpecLive == SpecPool /\ WF_vars(Wake) /\ WF_vars(QueryPoolReturn(PoolBodies))

\* The exporter with neither pool nor miner, over every driver failure.
DeviceArgs == {a \in ArgSets : Supplied(PoolGroup(a)) = 0 /\ Supplied(MinerGroup(a)) = 0}

InitDevice == InitWith(DeviceArgs, 0..MaxGpus, TRUE)

NextDevice ==
  \/ Startup(SysBodies)
  \/ ScrapeStart
  \/ CollectNvidia
  \/ Respond

SpecDevice == InitDevice /\ [][NextDevice]_vars

\* ------------------------------------------------------------------ claims
\* The value collect() is to emit for key of the snapshot snap: the
\* field's number, or 0 when the field is absent or null.
Defaulted(snap, key) ==
  IF snap.t = "dict" /\ snap.d.k = "obj" /\ key \in DOMAIN snap.d.o /\ snap.d.o[key].k = "num"
  THEN snap.d.o[key].v ELSE 0

\* The families of name in a sequence of families.
Named(fams, name) == {n \in 1..Len(fams) : fams[n].name = name}

\* C1: every query_pool call that received anything but a well-formed
\* pool-statistics payload (a network error, a body that is not JSON, JSON
\* of another shape) left the cached snapshot exactly as it was, and no
\* exception left the call.
C1_FailedRefreshKeepsSnapshot ==
  lastRefresh.outcome # "fail_replaced" /\ mainPc # "crashed"

\* C2: for every cached snapshot a pool collect() has read, the collect
\* does not raise, and every point it has emitted carries its field's value,
\* or 0 when the field is absent from the snapshot or null.
C2_CollectDefaultsAbsentFields ==
  local # Unbound =>
    /\ ends.pool # "raised"
    /\ \A n \in 1..Len(emitted) : emitted[n] = Defaulted(ends.snap, PoolPoints[n].key)

\* C3: when exactly one driver query fails, the device collect() still
\* completes, the points fed by that query are 0 and every other point of
\* every device carries the driver's reading.
C3_FailureIsolatedPerMetric ==
  (ends.nvidia # "none" /\ Cardinality(nvmlFail) = 1) =>
    /\ ends.nvidia = "ok"
    /\ \A i \in 0..(gpuCount - 1), p \in PointIdx :
         \E f \in Named(acc, DevicePoints[p].fam) : \E j \in 1..Len(acc[f].samples) :
           acc[f].samples[j] =
             Sample(GpuUUID(i), DevicePoints[p].type,
                    IF <<i, DevicePoints[p].q>> \in nvmlFail THEN 0 ELSE Reading(i, p))

\* C4: whatever polls return while a pool collect() runs, the values it has
\* emitted all come from one snapshot: the one cached when the collect
\* began, or the one cached now.
C4_CollectReadsOneSnapshot ==
  local # Unbound =>
    \E snap \in {ends.snap, data} :
      \A n \in 1..Len(emitted) : emitted[n] = Defaulted(snap, PoolPoints[n].key)

\* A pool collect() ran to its end while a poll installed another snapshot.
C4_Witness ==
  /\ ends.pool = "ok" /\ Len(emitted) = Len(PoolPoints)
  /\ tainted /\ data # ends.snap /\ WellFormed(Json(data)) /\ WellFormed(Json(ends.snap))

C7_BMinerConnFailureDefaults ==
  (ends.rsp = "connfail" /\ args.miner = "bminer") =>
    /\ BMinerQuery("connfail") = QueryDict(FALSE)
    /\ ends.miner = "ok"
    /\ \A f \in Named(acc, "miner_hashrate") \cup Named(acc, "miner_efficiency") :
         acc[f].samples = << >>
    /\ \E f \in Named(acc, "miner_uptime") : Len(acc[f].samples) > 0
    /\ \E f \in Named(acc, "miner_pool_shares") : Len(acc[f].samples) > 0

\* C8 (as claimed): a scrape that ends with no poll, no change of the
\* driver's readings and no change of the miner's answer since the scrape
\* before it began gives the same response, family by family and point by
\* point.
C8_ScrapesIdempotent ==
  (scrapePc = "respond" /\ response.held /\ ~tainted) =>
    Held(ResponseOf(scrapeOk, acc)) = response

\* A response with the value of bminer's miner_uptime{type="miner"} point
\* (the clock reading minus start_time) blanked.
MaskUptime(r) ==
  [r EXCEPT !.fams =
     [n \in 1..Len(r.fams) |->
        IF args.miner = "bminer" /\ r.fams[n].name = "miner_uptime"
        THEN Family(r.fams[n].name,
                    [j \in 1..Len(r.fams[n].samples) |->
                       IF r.fams[n].samples[j].type = "miner"
                       THEN Sample(r.fams[n].samples[j].gpu_id, "miner", 0)
                       ELSE r.fams[n].samples[j]])
        ELSE r.fams[n]]]

\* C8 (amended): such a scrape gives the same response but for the value
\* of bminer's miner_uptime{type="miner"} point, which follows the clock.
C8_ScrapesIdempotentButUptime ==
  (scrapePc = "respond" /\ response.held /\ ~tainted) =>
    MaskUptime(Held(ResponseOf(scrapeOk, acc))) = MaskUptime(response)

\* Two scrapes in a row of an exporter with pool and bminer, both answered.
C8_Witness ==
  /\ scrapePc = "respond" /\ response.held /\ ~tainted
  /\ response.ok /\ scrapeOk /\ registry = <<"nvidia", "flypool", "bminer">> /\ gpuCount > 0

\* C9: startup is rejected exactly when one of the two option groups is
\* given in part; a rejected startup registers nothing and serves nothing;
\* and once serving, the pool (miner) collector is registered exactly when
\* its group was given in full.
C9_GroupsAllOrNone ==
  /\ mainPc # "parse_args" =>
       (mainPc = "rejected" <=>
          ~(Supplied(PoolGroup(args)) \in {0, 3} /\ Supplied(MinerGroup(args)) \in {0, 3}))
  /\ mainPc = "rejected" => (registry = << >> /\ ~serving /\ ~pool_collector)
  /\ serving =>
       /\ (\E n \in 1..Len(registry) : registry[n] = "flypool") <=> Supplied(PoolGroup(args)) = 3
       /\ (\E n \in 1..Len(registry) : registry[n] \in {"dstm", "bminer"})
            <=> Supplied(MinerGroup(args)) = 3

\* A command line with one pool option and a full miner group was rejected.
C9_Witness ==
  mainPc = "rejected" /\ Supplied(PoolGroup(args)) = 1 /\ Supplied(MinerGroup(args)) = 3

====
